---- MODULE Spec2Model ----
(***************************************************************************)
(* Model of backend/app.py: the date helper parse_date, the OCR step       *)
(* process_file, the LLM step extract_data_from_text and the Flask         *)
(* handler process_invoice.                                                *)
(*                                                                         *)
(* Python values are records [t, s, n]: t is the Python type, s the        *)
(* characters of a str (a sequence of one-character strings; fixed         *)
(* messages are kept as one chunk), n the value of a number in tenths      *)
(* (0.5 is n = 5) or the length of a list.                                 *)
(***************************************************************************)
EXTENDS Integers, Sequences, FiniteSets, TLC

VARIABLES
    dateCall,     \* parse_date: the arguments of the call under test
    dateRet,      \* parse_date: the value returned (or the exception raised)
    llm_model,    \* module global llm_model: TRUE when Gemini was configured
    strftime_pads_year, \* the build's strftime: TRUE when %Y zero-pads years below 1000
    llmReply,     \* what llm_model.generate_content does in this call
    extractRet,   \* extract_data_from_text: the value returned or raised
    pc,           \* process_invoice: position of the request in the handler
    request,      \* the multipart request: the invoiceFile part and its filename
    tempDirs,     \* temporary directories that exist now
    created,      \* temporary directories created while serving this request
    ocrCalls,     \* calls of process_file in this request
    llmCalls,     \* calls of generate_content in this request
    ocrRet,       \* what process_file returned or raised
    response,     \* the HTTP response of the handler
    nResp,        \* responses produced for this request
    escaped       \* an exception left process_invoice

vars == <<dateCall, dateRet, llm_model, strftime_pads_year, llmReply, extractRet, pc, request,
          tempDirs, created, ocrCalls, llmCalls, ocrRet, response, nResp, escaped>>

dateVars == <<dateCall, dateRet>>
envVars == <<llm_model, strftime_pads_year>>
extractVars == <<llm_model, strftime_pads_year, llmReply, extractRet>>
handlerVars == <<pc, request, tempDirs, created, ocrCalls, llmCalls, ocrRet,
                 response, nResp, escaped>>

----------------------------------------------------------------------------
(* Bounds of the model *)

\* generated dates lie in the years 2024 (a leap year) .. 2024 + YearSpan
YearSpan == 1
\* a PDF has at most MaxPages pages
MaxPages == 2

Years == 2024 .. (2024 + YearSpan)

----------------------------------------------------------------------------
(* Python values *)

PyNone == [t |-> "None", s |-> <<>>, n |-> 0]
Missing == [t |-> "missing", s |-> <<>>, n |-> 0]
Str(chars) == [t |-> "str", s |-> chars, n |-> 0]
PyInt(tenths) == [t |-> "int", s |-> <<>>, n |-> tenths]
PyFloat(tenths) == [t |-> "float", s |-> <<>>, n |-> tenths]
PyList(len) == [t |-> "list", s |-> <<>>, n |-> len]
\* an exception raised instead of a value; s is its message
Raise(msg) == [t |-> "exc", s |-> msg, n |-> 0]

IsRaise(v) == v.t = "exc"

\* Python truth value: `not v` is ~Truthy(v)
Truthy(v) ==
    CASE v.t = "None" -> FALSE
      [] v.t = "str" -> v.s # <<>>
      [] v.t \in {"int", "float", "list"} -> v.n # 0
      [] OTHER -> TRUE

----------------------------------------------------------------------------
(* Characters *)

Digits == <<"0", "1", "2", "3", "4", "5", "6", "7", "8", "9">>
IsDigit(c) == \E i \in 1..10 : Digits[i] = c
DigitVal(c) == (CHOOSE i \in 1..10 : Digits[i] = c) - 1

UpperCase == <<"A", "B", "C", "D", "E", "F", "G", "H", "I", "J", "K", "L", "M",
               "N", "O", "P", "Q", "R", "S", "T", "U", "V", "W", "X", "Y", "Z">>
LowerCase == <<"a", "b", "c", "d", "e", "f", "g", "h", "i", "j", "k", "l", "m",
               "n", "o", "p", "q", "r", "s", "t", "u", "v", "w", "x", "y", "z">>

\* str.lower() on one character
LowerChar(c) ==
    IF \E i \in 1..26 : UpperCase[i] = c
    THEN LowerCase[CHOOSE i \in 1..26 : UpperCase[i] = c]
    ELSE c

\* str.lower()
Lower(chars) == [i \in 1..Len(chars) |-> LowerChar(chars[i])]

Drop(chars, k) == SubSeq(chars, k + 1, Len(chars))

\* the decimal number written by a sequence of digits
RECURSIVE Num(_)
Num(chars) ==
    IF chars = <<>> THEN 0
    ELSE 10 * Num(SubSeq(chars, 1, Len(chars) - 1)) + DigitVal(chars[Len(chars)])

\* n in decimal without padding
RECURSIVE Decimal(_)
Decimal(n) == IF n < 10 THEN <<Digits[n + 1]>> ELSE Decimal(n \div 10) \o <<Digits[(n % 10) + 1]>>

\* n written with exactly w digits, zero padded
RECURSIVE Padded(_, _)
Padded(n, w) ==
    IF w = 0 THEN <<>> ELSE Padded(n \div 10, w - 1) \o <<Digits[(n % 10) + 1]>>

----------------------------------------------------------------------------
(* datetime.strptime and strftime, as parse_date uses them *)

\* the C locale's abbreviated month names (%b)
MonthAbbr == << <<"J", "a", "n">>, <<"F", "e", "b">>, <<"M", "a", "r">>,
                <<"A", "p", "r">>, <<"M", "a", "y">>, <<"J", "u", "n">>,
                <<"J", "u", "l">>, <<"A", "u", "g">>, <<"S", "e", "p">>,
                <<"O", "c", "t">>, <<"N", "o", "v">>, <<"D", "e", "c">> >>

IsLeap(y) == (y % 4 = 0 /\ y % 100 # 0) \/ y % 400 = 0

DaysInMonth(y, m) ==
    IF m = 2 THEN (IF IsLeap(y) THEN 29 ELSE 28)
    ELSE IF m \in {4, 6, 9, 11} THEN 30 ELSE 31

\* formats_to_try, each format a sequence of directives and literal characters
formats_to_try == <<
    <<"%Y", "-", "%m", "-", "%d">>,
    <<"%m", "/", "%d", "/", "%Y">>,
    <<"%d", "/", "%m", "/", "%Y">>,
    <<"%m", "-", "%d", "-", "%Y">>,
    <<"%d", "-", "%m", "-", "%Y">>,
    <<"%d", ".", "%m", ".", "%Y">>,
    <<"%m", ".", "%d", ".", "%Y">>,
    <<"%b", " ", "%d", ",", " ", "%Y">>,
    <<"%d", " ", "%b", " ", "%Y">> >>

NoMatch == [ok |-> FALSE, y |-> 0, m |-> 0, d |-> 0]

\* width of the text %m takes at the head of chars: 1[0-2]|0[1-9]|[1-9]
MonthWidth(chars) ==
    IF Len(chars) >= 2 /\ chars[1] = "1" /\ chars[2] \in {"0", "1", "2"} THEN 2
    ELSE IF Len(chars) >= 2 /\ chars[1] = "0" /\ IsDigit(chars[2]) /\ chars[2] # "0" THEN 2
    ELSE IF Len(chars) >= 1 /\ IsDigit(chars[1]) /\ chars[1] # "0" THEN 1
    ELSE 0

\* width of the text %d takes: 3[0-1]|[1-2]\d|0[1-9]|[1-9]| [1-9]
DayWidth(chars) ==
    IF Len(chars) >= 2 /\ chars[1] = "3" /\ chars[2] \in {"0", "1"} THEN 2
    ELSE IF Len(chars) >= 2 /\ chars[1] \in {"1", "2"} /\ IsDigit(chars[2]) THEN 2
    ELSE IF Len(chars) >= 2 /\ chars[1] = "0" /\ IsDigit(chars[2]) /\ chars[2] # "0" THEN 2
    ELSE IF Len(chars) >= 1 /\ IsDigit(chars[1]) /\ chars[1] # "0" THEN 1
    ELSE IF Len(chars) >= 2 /\ chars[1] = " " /\ IsDigit(chars[2]) /\ chars[2] # "0" THEN 2
    ELSE 0

\* the number a %m or %d text of width w denotes (the text may start with a blank)
FieldVal(chars, w) ==
    IF chars[1] = " " THEN DigitVal(chars[2]) ELSE Num(SubSeq(chars, 1, w))

\* number of blanks at the head of chars (a blank of the format is \s+)
RECURSIVE Blanks(_)
Blanks(chars) ==
    IF chars # <<>> /\ chars[1] = " " THEN 1 + Blanks(Tail(chars)) ELSE 0

\* the month whose abbreviation, in any letter case, starts chars; 0 when none
MonthOfAbbr(chars) ==
    IF Len(chars) >= 3 /\ \E i \in 1..12 : Lower(MonthAbbr[i]) = Lower(SubSeq(chars, 1, 3))
    THEN CHOOSE i \in 1..12 : Lower(MonthAbbr[i]) = Lower(SubSeq(chars, 1, 3))
    ELSE 0

\* the regular expression strptime builds from a format, matched against chars;
\* text left over after the match is "unconverted data remains"
RECURSIVE MatchFormat(_, _, _)
MatchFormat(toks, chars, acc) ==
    IF toks = <<>> THEN (IF chars = <<>> THEN acc ELSE NoMatch)
    ELSE LET tok == Head(toks)
             rest == Tail(toks)
         IN CASE tok = "%Y" ->
                   IF Len(chars) >= 4 /\ \A i \in 1..4 : IsDigit(chars[i])
                   THEN MatchFormat(rest, Drop(chars, 4),
                                    [acc EXCEPT !.y = Num(SubSeq(chars, 1, 4))])
                   ELSE NoMatch
              [] tok = "%m" ->
                   LET w == MonthWidth(chars)
                   IN IF w = 0 THEN NoMatch
                      ELSE MatchFormat(rest, Drop(chars, w),
                                       [acc EXCEPT !.m = FieldVal(chars, w)])
              [] tok = "%d" ->
                   LET w == DayWidth(chars)
                   IN IF w = 0 THEN NoMatch
                      ELSE MatchFormat(rest, Drop(chars, w),
                                       [acc EXCEPT !.d = FieldVal(chars, w)])
              [] tok = "%b" ->
                   LET mo == MonthOfAbbr(chars)
                   IN IF mo = 0 THEN NoMatch
                      ELSE MatchFormat(rest, Drop(chars, 3), [acc EXCEPT !.m = mo])
              [] tok = " " ->
                   LET b == Blanks(chars)
                   IN IF b = 0 THEN NoMatch ELSE MatchFormat(rest, Drop(chars, b), acc)
              [] OTHER ->
                   IF chars # <<>> /\ chars[1] = tok
                   THEN MatchFormat(rest, Tail(chars), acc)
                   ELSE NoMatch

\* datetime.strptime(date_str, date_format): ok is FALSE where it raises ValueError
\* (no match, text left over, or a day the month does not have)
Strptime(chars, toks) ==
    LET r == MatchFormat(toks, chars, [ok |-> TRUE, y |-> 0, m |-> 0, d |-> 0])
    IN IF r.ok /\ r.y >= 1 /\ r.d <= DaysInMonth(r.y, r.m) THEN r ELSE NoMatch

\* strftime('%Y-%m-%d'): %m and %d are two digits; %Y is the C library's, which
\* on glibc writes a year below 1000 without leading zeros (CPython pads it
\* itself only in later versions)
Strftime(y, m, d) ==
    (IF strftime_pads_year THEN Padded(y, 4) ELSE Decimal(y))
    \o <<"-">> \o Padded(m, 2) \o <<"-">> \o Padded(d, 2)

----------------------------------------------------------------------------
(* parse_date *)

\* datetime.now().strftime('%Y-%m-%d'), the day the request is served
today_date == Strftime(2025, 11, 2)

\* TryFormats with the final `return default_date` returning today's date
RECURSIVE TryFormats_ReturnsToday(_, _, _)
TryFormats_ReturnsToday(chars, i, default_date) ==
    IF i > Len(formats_to_try) THEN Str(today_date)
    ELSE LET r == Strptime(chars, formats_to_try[i])
         IN IF r.ok THEN Str(Strftime(r.y, r.m, r.d))
            ELSE TryFormats_ReturnsToday(chars, i + 1, default_date)

\* the loop over formats_to_try from format i on: the first format strptime
\* accepts decides, and default_date is returned when none does
RECURSIVE TryFormats(_, _, _)
TryFormats(chars, i, default_date) ==
    IF i > Len(formats_to_try) THEN default_date
    ELSE LET r == Strptime(chars, formats_to_try[i])
         IN IF r.ok THEN Str(Strftime(r.y, r.m, r.d))
            ELSE TryFormats(chars, i + 1, default_date)

ParseDate(date_str, default_date) ==
    IF ~Truthy(date_str) THEN default_date
    ELSE IF date_str.t # "str"
         THEN Raise(<<"AttributeError: object has no attribute 'lower'">>)
    ELSE IF Lower(date_str.s) = <<"n", "/", "a">> THEN default_date
    ELSE TryFormats(date_str.s, 1, default_date)

----------------------------------------------------------------------------
(* Inputs of parse_date *)

\* the date y-m-d written in format toks, its numbers zero padded or not
RECURSIVE WriteDate(_, _, _, _, _)
WriteDate(toks, y, m, d, pad) ==
    IF toks = <<>> THEN <<>>
    ELSE LET tok == Head(toks)
             txt == CASE tok = "%Y" -> Padded(y, 4)
                      [] tok = "%m" -> IF pad THEN Padded(m, 2) ELSE Decimal(m)
                      [] tok = "%d" -> IF pad THEN Padded(d, 2) ELSE Decimal(d)
                      [] tok = "%b" -> MonthAbbr[m]
                      [] OTHER -> <<tok>>
         IN txt \o WriteDate(Tail(toks), y, m, d, pad)

\* absent inputs: None, the empty string, 'N/A' in any letter case
AbsentInputs ==
    {PyNone, Str(<<>>), Str(<<"N", "/", "A">>), Str(<<"n", "/", "a">>),
     Str(<<"N", "/", "a">>), Str(<<"n", "/", "A">>)}

\* strings in none of the nine formats
UnparseableInputs ==
    {Str(<<"t", "b", "d">>),
     Str(<<"2", "0", "2", "5", "/", "1", "1", "/", "0", "2">>),        \* Y/m/d
     Str(<<"1", "3", "/", "1", "3", "/", "2", "0", "2", "5">>),        \* no month 13
     Str(<<"0", "2", "/", "3", "0", "/", "2", "0", "2", "5">>),        \* no 30 Feb
     Str(<<"3", "1", ".", "0", "4", ".", "2", "0", "2", "5">>),        \* no 31 Apr
     Str(<<"2", "0", "2", "5", "-", "1", "1", "-", "0", "2", " ">>),   \* trailing blank
     Str(<<"2", "0", "2", "5", "-", "1", "1", "-", "0", "2", "T", "1", "0">>),
     Str(<<"1", "1", "/", "0", "2", "/", "2", "5">>),                  \* 2-digit year
     Str(<<"N", "o", "v", " ", "2", "0", "2", "5">>),
     Str(<<"n", "e", "t", " ", "3", "0">>)}

Defaults == {Str(today_date), PyNone}

\* a call of parse_date with a date written in format fmt (fmt, y, m, d
\* remember what the caller wrote), or with an absent or unparseable input
DateCalls ==
    { [date_str |-> Str(WriteDate(formats_to_try[f], y, m, d, pad)),
       default_date |-> dflt, fmt |-> f, y |-> y, m |-> m, d |-> d] :
         f \in 1..Len(formats_to_try), y \in Years, m \in 1..12, d \in 1..31,
         pad \in BOOLEAN, dflt \in Defaults }
    \cup
    { [date_str |-> s, default_date |-> dflt, fmt |-> 0, y |-> 0, m |-> 0, d |-> 0] :
         s \in AbsentInputs \cup UnparseableInputs, dflt \in Defaults }

----------------------------------------------------------------------------
(* extract_data_from_text *)

Keys == {"vendorName", "invoiceNumber", "invoiceDate", "dueDate", "subtotal", "tax",
         "totalAmount", "currency", "lineItems", "confidenceScore", "rationale"}
OutKeys == Keys \cup {"status"}

NoRecord == [k \in OutKeys |-> Missing]

\* data.get(key, dflt)
Get(data, key, dflt) == IF data[key].t = "missing" THEN dflt ELSE data[key]

\* x or dflt
Or(x, dflt) == IF Truthy(x) THEN x ELSE dflt

RECURSIVE LStrip(_)
LStrip(chars) == IF chars # <<>> /\ Head(chars) = " " THEN LStrip(Tail(chars)) ELSE chars

RECURSIVE RStrip(_)
RStrip(chars) ==
    IF chars # <<>> /\ chars[Len(chars)] = " "
    THEN RStrip(SubSeq(chars, 1, Len(chars) - 1)) ELSE chars

\* v.strip(): only a str has the method
Strip(v) ==
    IF v.t = "str" THEN Str(RStrip(LStrip(v.s)))
    ELSE Raise(<<"AttributeError: object has no attribute 'strip'">>)

\* ToFloat without the conversion of a number: the JSON int stays an int
ToFloat_KeepsInt(v) ==
    CASE v.t \in {"int", "float"} -> v
      [] v.t = "str" ->
           IF v.s # <<>> /\ \A i \in 1..Len(v.s) : IsDigit(v.s[i])
           THEN PyFloat(10 * Num(v.s))
           ELSE Raise(<<"ValueError: could not convert string to float">>)
      [] OTHER -> Raise(<<"TypeError: float() argument must be a string or a real number">>)

\* float(v): a number converts, a str converts when it writes a number
\* (here: digits only), anything else raises
ToFloat(v) ==
    CASE v.t \in {"int", "float"} -> PyFloat(v.n)
      [] v.t = "str" ->
           IF v.s # <<>> /\ \A i \in 1..Len(v.s) : IsDigit(v.s[i])
           THEN PyFloat(10 * Num(v.s))
           ELSE Raise(<<"ValueError: could not convert string to float">>)
      [] OTHER -> Raise(<<"TypeError: float() argument must be a string or a real number">>)

\* the record of the except branch, e the exception's message
DegradedRecord(e) ==
    [k \in OutKeys |->
        CASE k = "vendorName" -> Str(<<"AI Error">>)
          [] k = "invoiceNumber" -> Str(<<"N", "/", "A">>)
          [] k = "invoiceDate" -> Str(today_date)
          [] k = "dueDate" -> Str(today_date)
          [] k \in {"subtotal", "tax", "totalAmount"} -> PyFloat(0)
          [] k = "currency" -> Str(<<"I", "N", "R">>)
          [] k = "lineItems" -> PyList(0)
          [] k = "confidenceScore" -> PyFloat(0)
          [] k = "rationale" -> Str(e)
          [] k = "status" -> Str(<<"AI Error: ">> \o e)]

\* the values of the try block in the order Python computes them
ComputedFields(data) ==
    LET invoice_date == ParseDate(Get(data, "invoiceDate", PyNone), Str(today_date))
        due_date == IF IsRaise(invoice_date) THEN invoice_date
                    ELSE ParseDate(Get(data, "dueDate", PyNone), invoice_date)
    IN << <<"invoiceDate", invoice_date>>,
          <<"dueDate", due_date>>,
          <<"vendorName", Strip(Get(data, "vendorName", Str(<<"Unknown Vendor">>)))>>,
          <<"invoiceNumber", Strip(Get(data, "invoiceNumber", Str(<<"N", "/", "A">>)))>>,
          <<"subtotal", ToFloat(Or(Get(data, "subtotal", PyFloat(0)), PyFloat(0)))>>,
          <<"tax", ToFloat(Or(Get(data, "tax", PyFloat(0)), PyFloat(0)))>>,
          <<"totalAmount", ToFloat(Or(Get(data, "totalAmount", PyFloat(0)), PyFloat(0)))>>,
          <<"currency", Get(data, "currency", Str(<<"I", "N", "R">>))>>,
          <<"lineItems", Get(data, "lineItems", PyList(0))>>,
          <<"confidenceScore",
            ToFloat(Or(Get(data, "confidenceScore", PyFloat(5)), PyFloat(5)))>>,
          <<"rationale", Get(data, "rationale", Str(<<"N", "/", "A">>))>>,
          <<"status", Str(<<"Pending">>)>> >>

\* the positions of fields whose computation raised
RaisedAt(f) == {i \in 1..Len(f) : IsRaise(f[i][2])}

\* the value computed for key k
FieldOf(f, k) == f[CHOOSE i \in 1..Len(f) : f[i][1] = k][2]

\* the first exception raised, in the order of computation
FirstRaised(f) == f[CHOOSE i \in RaisedAt(f) : \A j \in RaisedAt(f) : i <= j][2]

\* the extracted_data dict made of the computed fields f, or the first
\* exception raised while computing them
RecordOf(f) ==
    IF RaisedAt(f) = {}
    THEN [t |-> "dict", s |-> <<>>, rec |-> [k \in OutKeys |-> FieldOf(f, k)]]
    ELSE [t |-> "exc", s |-> FirstRaised(f).s, rec |-> NoRecord]

\* the body of the try block once json.loads returned an object
BuildRecord(data) == RecordOf(ComputedFields(data))

NotCalled == [t |-> "missing", s |-> <<>>, rec |-> NoRecord]

\* what the try block does with the reply of generate_content
TryBlock(reply) ==
    CASE reply.kind = "api_error" ->
           [t |-> "exc", s |-> <<"generate_content failed">>, rec |-> NoRecord]
      [] reply.kind = "bad_json" ->
           [t |-> "exc", s |-> <<"JSONDecodeError">>, rec |-> NoRecord]
      [] reply.kind = "array" ->
           [t |-> "exc", s |-> <<"AttributeError: 'list' object has no attribute 'get'">>,
            rec |-> NoRecord]
      [] OTHER -> BuildRecord(reply.doc)

\* extract_data_from_text: raises when llm_model is None, and otherwise returns
\* the extracted record or, on any exception of the try block, the degraded one
ExtractDataFromText(configured, reply) ==
    IF ~configured
    THEN [t |-> "exc", s |-> <<"Gemini AI Model is not configured or failed to initialize.">>,
          rec |-> NoRecord]
    ELSE LET r == TryBlock(reply)
         IN IF r.t = "exc"
            THEN [t |-> "dict", s |-> <<>>, rec |-> DegradedRecord(r.s)]
            ELSE r

----------------------------------------------------------------------------
(* Replies of the LLM *)

\* a JSON object as the prompt documents it
DocDocumented ==
    [k \in Keys |->
        CASE k = "vendorName" -> Str(<<" ", "A", "c", "m", "e", " ">>)
          [] k = "invoiceNumber" -> Str(<<"I", "N", "V", "-", "1">>)
          [] k = "invoiceDate" -> Str(<<"2", "0", "2", "5", "-", "1", "1", "-", "0", "2">>)
          [] k = "dueDate" -> Str(<<"0", "2", "/", "1", "2", "/", "2", "0", "2", "5">>)
          [] k = "subtotal" -> PyFloat(1000)
          [] k = "tax" -> PyInt(180)
          [] k = "totalAmount" -> PyFloat(1180)
          [] k = "currency" -> Str(<<"U", "S", "D">>)
          [] k = "lineItems" -> PyList(2)
          [] k = "confidenceScore" -> PyFloat(9)
          [] k = "rationale" -> Str(<<"Totals read from the footer.">>)]

\* nothing was found: the prompt's sentinels ("N/A", 0.00, [], confidence 0.0)
DocNotFound ==
    [k \in Keys |->
        CASE k \in {"vendorName", "invoiceNumber", "invoiceDate", "currency", "rationale"}
               -> Str(<<"N", "/", "A">>)
          [] k = "dueDate" -> Str(<<"n", "/", "a">>)
          [] k = "subtotal" -> PyInt(0)
          [] k \in {"tax", "totalAmount", "confidenceScore"} -> PyFloat(0)
          [] k = "lineItems" -> PyList(0)]

\* every key null
DocNulls == [k \in Keys |-> PyNone]

\* a credit note: negative amounts, dates as the document prints them
DocCreditNote ==
    [k \in Keys |->
        CASE k = "vendorName" -> Str(<<"A", "c", "m", "e">>)
          [] k = "invoiceNumber" -> Str(<<"C", "N", "-", "7">>)
          [] k = "invoiceDate" -> Str(<<"N", "o", "v", " ", "0", "2", ",", " ", "2", "0", "2", "5">>)
          [] k = "dueDate" -> Str(<<"n", "e", "t", " ", "3", "0">>)
          [] k = "subtotal" -> PyFloat(0 - 500)
          [] k = "tax" -> PyInt(0 - 90)
          [] k = "totalAmount" -> PyFloat(0 - 590)
          [] k = "currency" -> Str(<<"I", "N", "R">>)
          [] k = "lineItems" -> PyList(1)
          [] k = "confidenceScore" -> PyFloat(0 - 1)
          [] k = "rationale" -> Str(<<"Credit note.">>)]

\* values of other JSON types than the documented ones
DocIllTyped ==
    [k \in Keys |->
        CASE k = "vendorName" -> PyInt(420)
          [] k = "invoiceNumber" -> PyInt(70)
          [] k = "invoiceDate" -> PyInt(202511020)
          [] k = "dueDate" -> PyList(3)
          [] k = "subtotal" -> Str(<<"N", "/", "A">>)
          [] k = "tax" -> Str(<<"1", "8">>)
          [] k = "totalAmount" -> PyList(1)
          [] k = "currency" -> PyInt(10)
          [] k = "lineItems" -> Str(<<"n", "o", "n", "e">>)
          [] k = "confidenceScore" -> Str(<<"h", "i", "g", "h">>)
          [] k = "rationale" -> PyList(0)]

\* the documented object with the year of both dates misread as 0205
DocMisread ==
    [k \in Keys |->
        CASE k = "invoiceDate" -> Str(<<"0", "2", "0", "5", "-", "1", "1", "-", "0", "2">>)
          [] k = "dueDate" -> Str(<<"0", "2", " ", "D", "e", "c", " ", "0", "2", "0", "5">>)
          [] OTHER -> DocDocumented[k]]

Profiles == {DocDocumented, DocNotFound, DocNulls, DocCreditNote, DocIllTyped, DocMisread}

\* doc with the keys of omitted left out
Omit(doc, omitted) == [k \in Keys |-> IF k \in omitted THEN Missing ELSE doc[k]]

NoDoc == [k \in Keys |-> Missing]

\* replies that carry a JSON object: a profile with any subset of its keys omitted
ObjectReplies == {[kind |-> "object", doc |-> Omit(p, o)] : p \in Profiles, o \in SUBSET Keys}

\* replies that make the try block fail before a record is built
FailedReplies == {[kind |-> kd, doc |-> NoDoc] : kd \in {"api_error", "bad_json", "array"}}

NoReply == [kind |-> "none", doc |-> NoDoc]

----------------------------------------------------------------------------
(* process_file *)

\* index of the last occurrence of c in chars, 0 when there is none (rfind)
LastIndex(chars, c) ==
    IF \E i \in 1..Len(chars) : chars[i] = c
    THEN CHOOSE i \in 1..Len(chars) : chars[i] = c /\ \A j \in (i + 1)..Len(chars) : chars[j] # c
    ELSE 0

\* os.path.splitext(p)[1]: from the last dot on, unless that dot is in a
\* directory name or only dots precede it in the file name
SplitExt(chars) ==
    LET sepIndex == LastIndex(chars, "/")
        dotIndex == LastIndex(chars, ".")
    IN IF dotIndex > sepIndex /\ \E i \in (sepIndex + 1)..(dotIndex - 1) : chars[i] # "."
       THEN Drop(chars, dotIndex - 1)
       ELSE <<>>

\* all_text after the loop over the pages of a PDF: each page's OCR text and "\n\n"
RECURSIVE PagesText(_)
PagesText(pages) ==
    IF pages = <<>> THEN <<>> ELSE Head(pages) \o <<"\n\n">> \o PagesText(Tail(pages))

\* what the libraries do in one call: lib.ok is FALSE when convert_from_path,
\* Image.open or image_to_string raises, lib.pages is the OCR text of each page
LibOutcomes ==
    {[ok |-> o, pages |-> pg] :
        o \in BOOLEAN,
        pg \in UNION {[1..n -> {<<>>, <<"text">>}] : n \in 0..MaxPages}}

\* pytesseract.image_to_string on an image: the text of its one page, empty
\* when nothing was read
ImageText(lib) == IF lib.pages = <<>> THEN <<>> ELSE lib.pages[1]

\* ProcessFile without the `if not all_text` check
ProcessFile_NoEmptyCheck(file_extension, lib) ==
    IF file_extension = <<".", "p", "d", "f">>
    THEN IF lib.ok THEN Str(PagesText(lib.pages))
         ELSE Raise(<<"PDF processing failed. Is poppler installed?">>)
    ELSE IF file_extension \in {<<".", "p", "n", "g">>, <<".", "j", "p", "g">>, <<".", "j", "p", "e", "g">>}
    THEN IF lib.ok THEN Str(ImageText(lib))
         ELSE Raise(<<"cannot identify image file">>)
    ELSE Raise(<<"Unsupported file type">>)

\* process_file(file_path, file_extension): the text, or the exception re-raised
ProcessFile(file_extension, lib) ==
    LET all_text ==
          IF file_extension = <<".", "p", "d", "f">>
          THEN IF lib.ok THEN Str(PagesText(lib.pages))
               ELSE Raise(<<"PDF processing failed. Is poppler installed?">>)
          ELSE IF file_extension \in {<<".", "p", "n", "g">>, <<".", "j", "p", "g">>, <<".", "j", "p", "e", "g">>}
          THEN IF lib.ok THEN Str(ImageText(lib))
               ELSE Raise(<<"cannot identify image file">>)
          ELSE Raise(<<"Unsupported file type">>)
    IN IF IsRaise(all_text) THEN all_text
       ELSE IF ~Truthy(all_text)
            THEN Raise(<<"OCR failed to extract any text from the document.">>)
       ELSE all_text

----------------------------------------------------------------------------
(* process_invoice *)

NoResponse == [code |-> 0, status |-> "", message |-> <<>>, data |-> NoRecord]

\* jsonify({"status": "Error", "message": message}), code
ErrorResponse(code, message) ==
    [code |-> code, status |-> "Error", message |-> message, data |-> NoRecord]

\* jsonify({"status": "Success", "extractedData": rec}), 200
SuccessResponse(rec) == [code |-> 200, status |-> "Success", message |-> <<>>, data |-> rec]

\* ValidateUpload without the check of an empty filename
ValidateUpload_NoFilenameCheck(req) ==
    IF ~req.hasPart THEN ErrorResponse(400, <<"No file part in the request">>)
    ELSE NoResponse

\* the checks on request.files before anything is saved: the 400 response, or
\* NoResponse when the upload is accepted
ValidateUpload(req) ==
    IF ~req.hasPart THEN ErrorResponse(400, <<"No file part in the request">>)
    ELSE IF req.filename = <<>> THEN ErrorResponse(400, <<"No selected file">>)
    ELSE NoResponse

\* bool(file): a FileStorage is true when it has a filename
FileTruthy(req) == req.filename # <<>>

\* ExitTempDir that leaves the directory behind (mkdtemp without a cleanup)
ExitTempDir_Leaks(dirs, name) == dirs

\* leaving `with tempfile.TemporaryDirectory()`: the directory is removed
ExitTempDir(dirs, name) == dirs \ {name}

\* ExceptClause that re-raises: the exception leaves the handler
ExceptClause_Reraises(e) == [response |-> NoResponse, escaped |-> TRUE]

\* the except clause of the handler's try: what an exception e of the try block becomes
ExceptClause(e) == [response |-> ErrorResponse(500, e.s), escaped |-> FALSE]

\* the try statement around process_file and extract_data_from_text, given what
\* the block produced: a record to return, or an exception
TryExcept(ret) ==
    IF ret.t = "exc" THEN ExceptClause(ret)
    ELSE [response |-> SuccessResponse(ret.rec), escaped |-> FALSE]

Filenames ==
    {<<>>, <<"a", ".", "p", "d", "f">>, <<"a", ".", "p", "n", "g">>, <<"a", ".", "j", "p", "g">>, <<"a", ".", "j", "p", "e", "g">>, <<"a", ".", "P", "D", "F">>, <<"a", ".", "t", "x", "t">>, <<"a">>,
     <<".", "p", "d", "f">>, <<"a", ".", "b", "/", "p", "d", "f">>}

Requests == {[hasPart |-> h, filename |-> f] : h \in BOOLEAN, f \in Filenames}

\* the replies the handler's specification draws from
HandlerReplies ==
    FailedReplies \cup
    {[kind |-> "object", doc |-> Omit(p, o)] : p \in Profiles, o \in {{}, Keys, {"vendorName"}}}

NoRequest == [hasPart |-> FALSE, filename |-> <<>>]
NoDateCall == [date_str |-> PyNone, default_date |-> PyNone, fmt |-> 0, y |-> 0, m |-> 0, d |-> 0]

HandlerIdle ==
    /\ pc = "idle"
    /\ request = NoRequest
    /\ tempDirs = {}
    /\ created = {}
    /\ ocrCalls = 0
    /\ llmCalls = 0
    /\ ocrRet = Missing
    /\ response = NoResponse
    /\ nResp = 0
    /\ escaped = FALSE

\* a request arrives (the worker serves one request at a time)
Receive ==
    /\ pc \in {"idle", "responded"}
    /\ \E req \in Requests : request' = req
    /\ pc' = "received"
    /\ created' = {}
    /\ ocrCalls' = 0
    /\ llmCalls' = 0
    /\ ocrRet' = Missing
    /\ response' = NoResponse
    /\ nResp' = 0
    /\ llmReply' = NoReply
    /\ extractRet' = NotCalled
    /\ UNCHANGED <<tempDirs, escaped, envVars, dateVars>>

\* lines 220-233: reject the request, or save the upload in a fresh directory
CheckUpload ==
    /\ pc = "received"
    /\ LET rejected == ValidateUpload(request)
       IN IF rejected # NoResponse
          THEN /\ response' = rejected
               /\ nResp' = nResp + 1
               /\ pc' = "responded"
               /\ UNCHANGED <<tempDirs, created>>
          ELSE IF FileTruthy(request)
          THEN /\ tempDirs' = tempDirs \cup {"upload"}
               /\ created' = created \cup {"upload"}
               /\ pc' = "saved"
               /\ UNCHANGED <<response, nResp>>
          ELSE /\ response' = ErrorResponse(500, <<"Unknown error">>)
               /\ nResp' = nResp + 1
               /\ pc' = "responded"
               /\ UNCHANGED <<tempDirs, created>>
    /\ UNCHANGED <<request, ocrCalls, llmCalls, ocrRet, escaped, extractVars, dateVars>>

\* process_file on a PDF enters `with tempfile.TemporaryDirectory() as temp_path`
ProcessPdfEnter ==
    /\ pc = "saved"
    /\ SplitExt(request.filename) = <<".", "p", "d", "f">>
    /\ ocrCalls' = ocrCalls + 1
    /\ tempDirs' = tempDirs \cup {"pages"}
    /\ created' = created \cup {"pages"}
    /\ pc' = "in_pdf"
    /\ UNCHANGED <<request, llmCalls, ocrRet, response, nResp, escaped, extractVars, dateVars>>

\* the pages are converted and read, and the `with` of process_file is left
ProcessPdfPages ==
    /\ pc = "in_pdf"
    /\ \E lib \in LibOutcomes : ocrRet' = ProcessFile(SplitExt(request.filename), lib)
    /\ tempDirs' = ExitTempDir(tempDirs, "pages")
    /\ pc' = "ocr_done"
    /\ UNCHANGED <<request, created, ocrCalls, llmCalls, response, nResp, escaped,
                   extractVars, dateVars>>

\* process_file on any other extension: an image is read, anything else refused
ProcessOther ==
    /\ pc = "saved"
    /\ SplitExt(request.filename) # <<".", "p", "d", "f">>
    /\ ocrCalls' = ocrCalls + 1
    /\ \E lib \in LibOutcomes : ocrRet' = ProcessFile(SplitExt(request.filename), lib)
    /\ pc' = "ocr_done"
    /\ UNCHANGED <<request, tempDirs, created, llmCalls, response, nResp, escaped,
                   extractVars, dateVars>>

\* process_file raised: the except clause answers and the upload's `with` is left
OcrFailed ==
    /\ pc = "ocr_done"
    /\ IsRaise(ocrRet)
    /\ LET out == TryExcept([t |-> "exc", s |-> ocrRet.s, rec |-> NoRecord])
       IN /\ response' = out.response
          /\ escaped' = out.escaped
          /\ nResp' = IF out.escaped THEN nResp ELSE nResp + 1
    /\ tempDirs' = ExitTempDir(tempDirs, "upload")
    /\ pc' = "responded"
    /\ UNCHANGED <<request, created, ocrCalls, llmCalls, ocrRet, extractVars, dateVars>>

\* process_file returned text: extract_data_from_text(ocr_text) runs, and calls
\* generate_content once when llm_model is configured
Extract ==
    /\ pc = "ocr_done"
    /\ ~IsRaise(ocrRet)
    /\ \E reply \in HandlerReplies :
          /\ llmReply' = (IF llm_model THEN reply ELSE NoReply)
          /\ extractRet' = ExtractDataFromText(llm_model, reply)
    /\ llmCalls' = IF llm_model THEN llmCalls + 1 ELSE llmCalls
    /\ pc' = "extract_done"
    /\ UNCHANGED <<request, tempDirs, created, ocrCalls, ocrRet, response, nResp, escaped,
                   envVars, dateVars>>

\* lines 238-241: the record is returned with 200, or the exception of
\* extract_data_from_text is answered by the except clause; the `with` is left
Respond ==
    /\ pc = "extract_done"
    /\ LET out == TryExcept(extractRet)
       IN /\ response' = out.response
          /\ escaped' = out.escaped
          /\ nResp' = IF out.escaped THEN nResp ELSE nResp + 1
    /\ tempDirs' = ExitTempDir(tempDirs, "upload")
    /\ pc' = "responded"
    /\ UNCHANGED <<request, created, ocrCalls, llmCalls, ocrRet, extractVars, dateVars>>

Init ==
    /\ HandlerIdle
    /\ llm_model \in BOOLEAN
    /\ strftime_pads_year \in BOOLEAN
    /\ llmReply = NoReply
    /\ extractRet = NotCalled
    /\ dateCall = NoDateCall
    /\ dateRet = Missing

Next ==
    \/ Receive
    \/ CheckUpload
    \/ ProcessPdfEnter
    \/ ProcessPdfPages
    \/ ProcessOther
    \/ OcrFailed
    \/ Extract
    \/ Respond

Spec == Init /\ [][Next]_vars

----------------------------------------------------------------------------
(* extract_data_from_text on its own, over every reply *)

InitExtract ==
    /\ HandlerIdle
    /\ strftime_pads_year \in BOOLEAN
    /\ \/ llm_model = TRUE /\ llmReply \in ObjectReplies \cup FailedReplies
       \/ llm_model = FALSE /\ llmReply \in FailedReplies \cup {[kind |-> "object", doc |-> DocDocumented]}
    /\ extractRet = NotCalled
    /\ dateCall = NoDateCall
    /\ dateRet = Missing

ExtractCall ==
    /\ extractRet = NotCalled
    /\ extractRet' = ExtractDataFromText(llm_model, llmReply)
    /\ UNCHANGED <<envVars, llmReply, handlerVars, dateVars>>

NextExtract == ExtractCall

SpecExtract == InitExtract /\ [][NextExtract]_vars

----------------------------------------------------------------------------
(* parse_date on its own *)

InitDate ==
    /\ HandlerIdle
    /\ llm_model = TRUE
    /\ strftime_pads_year \in BOOLEAN
    /\ llmReply = NoReply
    /\ extractRet = NotCalled
    /\ dateCall \in {c \in DateCalls : c.fmt = 0 \/ c.d <= DaysInMonth(c.y, c.m)}
    /\ dateRet = Missing

ParseDateCall ==
    /\ dateRet = Missing
    /\ dateRet' = ParseDate(dateCall.date_str, dateCall.default_date)
    /\ UNCHANGED <<dateCall, extractVars, handlerVars>>

NextDate == ParseDateCall

SpecDate == InitDate /\ [][NextDate]_vars

----------------------------------------------------------------------------
(* Properties *)

\* y-m-d in the canonical form YYYY-MM-DD
Canonical(y, m, d) == Padded(y, 4) \o <<"-">> \o Padded(m, 2) \o <<"-">> \o Padded(d, 2)

\* v is a str of the form YYYY-MM-DD
IsCanonical(v) ==
    /\ v.t = "str"
    /\ Len(v.s) = 10
    /\ \A i \in 1..10 : IF i \in {5, 8} THEN v.s[i] = "-" ELSE IsDigit(v.s[i])

NumKeys == {"subtotal", "tax", "totalAmount", "confidenceScore"}

\* the documented type of each field of the record
FieldType(k) ==
    IF k \in NumKeys THEN "float" ELSE IF k = "lineItems" THEN "list" ELSE "str"

\* the documented default of a numeric field, in tenths
NumDefault(k) == IF k = "confidenceScore" THEN 5 ELSE 0

WellTyped(rec) == \A k \in Keys : rec[k].t = FieldType(k)

Returned == extractRet.t = "dict"

\* C1: parse_date of a date written in one of the nine formats returns the
\* canonical YYYY-MM-DD string of the date the input denotes in that format,
\* whatever the default is.
C1_ParseDateDenotesInput ==
    (dateRet # Missing /\ dateCall.fmt # 0)
        => dateRet = Str(Canonical(dateCall.y, dateCall.m, dateCall.d))

\* C2: for an absent input (None, '', 'N/A' in any letter case) and for a
\* string in none of the formats, parse_date returns exactly the default it
\* was given, and does not raise.
C2_AbsentOrUnparseableGivesDefault ==
    (dateRet # Missing /\ dateCall.date_str \in AbsentInputs \cup UnparseableInputs)
        => dateRet = dateCall.default_date /\ ~IsRaise(dateRet)

C2_Witness ==
    /\ dateRet = PyNone
    /\ dateCall.default_date = PyNone
    /\ dateCall.date_str = Str(<<"0", "2", "/", "3", "0", "/", "2", "0", "2", "5">>)

\* C3: a request without an invoiceFile part, or with an empty filename, is
\* answered 400 with status Error and a non-empty message, and while it is
\* served no temporary directory is created and neither process_file nor the
\* LLM is called.
C3_MissingFileRejected ==
    (pc \in {"received", "responded"} /\ (~request.hasPart \/ request.filename = <<>>))
        => /\ created = {}
           /\ tempDirs = {}
           /\ ocrCalls = 0
           /\ llmCalls = 0
           /\ pc = "responded" =>
                 /\ response.code = 400
                 /\ response.status = "Error"
                 /\ response.message # <<>>
                 /\ response.data = NoRecord

C3_Witness ==
    /\ pc = "responded"
    /\ request.hasPart
    /\ request.filename = <<>>
    /\ response = ErrorResponse(400, <<"No selected file">>)

\* C4 (as stated): every record extract_data_from_text returns, for any JSON
\* object and when the LLM call fails, has all documented fields, each of its
\* documented type.
C4_RecordAlwaysTyped == Returned => WellTyped(extractRet.rec)

\* currency, rationale and lineItems of the reply are of their documented type
\* where they are present
PassThroughTyped(doc) ==
    \A k \in {"currency", "rationale", "lineItems"} :
        doc[k].t = "missing" \/ doc[k].t = FieldType(k)

\* C4 (amended): every record extract_data_from_text returns has all
\* documented fields, each of its documented type, when the LLM call fails and
\* for any JSON object, with any subset of keys omitted, whose currency,
\* rationale and lineItems are of their documented type where present.
C4_RecordTypedWhenPassThroughTyped ==
    (Returned /\ PassThroughTyped(llmReply.doc)) => WellTyped(extractRet.rec)

C4_Witness ==
    /\ Returned
    /\ llmReply.kind = "object"
    /\ llmReply.doc = Omit(DocNulls, {"currency", "rationale", "lineItems", "vendorName",
                                      "invoiceNumber"})
    /\ extractRet.rec["status"] = Str(<<"Pending">>)
    /\ extractRet.rec["currency"] = Str(<<"I", "N", "R">>)
    /\ extractRet.rec["confidenceScore"] = PyFloat(5)

C6_DatesCanonical ==
    Returned => IsCanonical(extractRet.rec["invoiceDate"])
                /\ IsCanonical(extractRet.rec["dueDate"])

\* C7: in every record extract_data_from_text returns, subtotal, tax,
\* totalAmount and confidenceScore are non-negative.
C7_NumericNonNegative ==
    Returned => \A k \in NumKeys : extractRet.rec[k].n >= 0

\* C10: a numeric value of the reply for subtotal, tax, totalAmount or
\* confidenceScore is carried into the record unchanged, and the default of
\* the field appears only when the key was omitted or null.
C10_NumericCarried ==
    (Returned /\ llmReply.kind = "object") =>
        \A k \in NumKeys :
            LET given == llmReply.doc[k]
                got == extractRet.rec[k]
            IN /\ given.t \in {"int", "float"} => got.n = given.n
               /\ (got.n = NumDefault(k) /\ given.t \notin {"missing", "None"})
                     => given.n = NumDefault(k)

\* C8: in one request process_file runs at most once and generate_content is
\* called at most once, and only after process_file returned non-empty text;
\* when process_file raises, the LLM is not called and the response is an Error.
C8_NoRetryAndOrder ==
    /\ ocrCalls <= 1
    /\ llmCalls <= 1
    /\ llmCalls = 1 => (ocrCalls = 1 /\ ocrRet.t = "str" /\ ocrRet.s # <<>>)
    /\ pc = "extract_done" => (ocrRet.t = "str" /\ ocrRet.s # <<>>)
    /\ IsRaise(ocrRet) => llmCalls = 0 /\ extractRet = NotCalled
    /\ (IsRaise(ocrRet) /\ pc = "responded") => response.status = "Error"

C8_Witness ==
    /\ pc = "responded"
    /\ ocrCalls = 1
    /\ ocrRet = Raise(<<"OCR failed to extract any text from the document.">>)
    /\ llmCalls = 0
    /\ response.status = "Error"

\* C9: once the response of a request is returned, on every exit path, neither
\* the directory of the saved upload nor the directory of the PDF page images
\* exists, for any sequence of requests.
C9_NoTempDirAfterResponse ==
    pc \in {"idle", "received", "responded"} => tempDirs = {}

C9_Witness ==
    /\ pc = "responded"
    /\ created = {"upload", "pages"}
    /\ IsRaise(ocrRet)
    /\ response.code = 500
    /\ tempDirs = {}

====
